---- MODULE Spec2Model ----
(***************************************************************************)
(* ledSpeak: the packet layer of src/ledSpeak.py.                          *)
(*                                                                         *)
(* A ledSpeakPacket object (WS2812 or P9813 flavour) builds raw-frame      *)
(* packets (packRawFrame) and parses received datagrams (unpack).          *)
(*                                                                         *)
(* Bytes are integers 0..255, byte strings are sequences of bytes, a pixel *)
(* is a tuple <<r, g, b>>.  A 32-bit unsigned value is kept as the pair    *)
(* <<high 16 bits, low 16 bits>>: a CRC exceeds the 32-bit signed integers *)
(* of TLC, and one representation serves every '>I' field.                 *)
(***************************************************************************)
EXTENDS Integers, Sequences, FiniteSets, TLC

(***************************************************************************)
(* Bounds of the exploration.                                              *)
(***************************************************************************)
\* longest pixel sequence given to the pixel codecs
MaxPixels == 3
\* longest byte string given to unpackPixels directly
MaxBytes == 7
\* longest pixel sequence given to packRawFrame
MaxFrame == 2
\* longest datagram of foreign origin given to unpack
MaxDatagram == 18
\* number of method calls made on the packet object in one run
MaxCalls == 2
\* largest --count given to the "simple" command
MaxCount == 65537

(***************************************************************************)
(* Bit operations on naturals, as Python's &, ^, >> compute them.          *)
(***************************************************************************)
RECURSIVE BitAnd(_, _)
BitAnd(a, b) ==
    IF a = 0 \/ b = 0 THEN 0
    ELSE ((a % 2) * (b % 2)) + 2 * BitAnd(a \div 2, b \div 2)

RECURSIVE BitXor(_, _)
BitXor(a, b) ==
    IF a = 0 THEN b
    ELSE IF b = 0 THEN a
    ELSE ((a + b) % 2) + 2 * BitXor(a \div 2, b \div 2)

RECURSIVE Pow2(_)
Pow2(n) == IF n = 0 THEN 1 ELSE 2 * Pow2(n - 1)

ShiftR(a, n) == a \div Pow2(n)

(***************************************************************************)
(* b''.join(list): concatenation of a list of byte strings.                *)
(***************************************************************************)
RECURSIVE Join(_)
Join(parts) ==
    IF parts = << >> THEN << >> ELSE Head(parts) \o Join(Tail(parts))

(***************************************************************************)
(* zip over n references to one iterator of s: consecutive groups of n     *)
(* items; zip stops at the first group it cannot complete.                 *)
(***************************************************************************)
RECURSIVE ZipGroups(_, _)
ZipGroups(s, n) ==
    IF Len(s) < n THEN << >>
    ELSE <<SubSeq(s, 1, n)>> \o ZipGroups(SubSeq(s, n + 1, Len(s)), n)

(***************************************************************************)
(* The pixel codecs.                                                       *)
(***************************************************************************)
Ws2812PackPixels(pixels) ==
    LET packedFrame == [i \in 1..Len(pixels) |->
                          LET r == pixels[i][1]
                              g == pixels[i][2]
                              b == pixels[i][3]
                          IN  <<g, r, b>>]
    IN  Join(packedFrame)

\* the mutant of Ws2812UnpackPixels: the wire bytes are taken as R,G,B
Ws2812UnpackPixelsRgb(packedFrame) == ZipGroups(packedFrame, 3)

Ws2812UnpackPixels(packedFrame) ==
    LET groups == ZipGroups(packedFrame, 3)
    IN  [i \in 1..Len(groups) |->
           LET g == groups[i][1]
               r == groups[i][2]
               b == groups[i][3]
           IN  <<r, g, b>>]

\* the mutant of pixelHeader: the fields are added instead of XOR-ed
pixelHeaderAdds(r, g, b) ==
    LET f_b == BitAnd(48, ShiftR(b, 2))
        f_g == BitAnd(12, ShiftR(g, 4))
        f_r == BitAnd(3, ShiftR(r, 6))
    IN  (255 + f_b + f_g + f_r) % 256

pixelHeader(r, g, b) ==
    LET f_b == BitAnd(48, ShiftR(b, 2))
        f_g == BitAnd(12, ShiftR(g, 4))
        f_r == BitAnd(3, ShiftR(r, 6))
    IN  BitXor(BitXor(BitXor(255, f_b), f_g), f_r)

P9813PackPixels(pixels) ==
    LET packedFrame == [i \in 1..Len(pixels) |->
                          LET r == pixels[i][1]
                              g == pixels[i][2]
                              b == pixels[i][3]
                          IN  <<pixelHeader(r, g, b), b, g, r>>]
    IN  Join(packedFrame)

P9813UnpackPixels(packedFrame) ==
    LET groups == ZipGroups(packedFrame, 4)
    IN  [i \in 1..Len(groups) |->
           LET h == groups[i][1]
               g == groups[i][2]
               r == groups[i][3]
               b == groups[i][4]
           IN  <<h, r, g, b>>]

\* the driver names ledSpeakNode accepts
Drivers == {"ws2812", "p9813"}

packPixels(d, pixels) ==
    IF d = "ws2812" THEN Ws2812PackPixels(pixels) ELSE P9813PackPixels(pixels)

unpackPixels(d, packedFrame) ==
    IF d = "ws2812" THEN Ws2812UnpackPixels(packedFrame)
    ELSE P9813UnpackPixels(packedFrame)

(***************************************************************************)
(* struct.pack / struct.unpack_from, big-endian.  U32(n) is the 32-bit     *)
(* value of the integer n.                                                 *)
(***************************************************************************)
U32(n) == <<n \div 65536, n % 65536>>

\* '>H' takes 0 <= number <= 65535 and raises struct.error otherwise
MaxH == 65535

CanPackH(v) == v \in 0..MaxH

PackH(v) == <<v \div 256, v % 256>>

PackI(w) == <<w[1] \div 256, w[1] % 256, w[2] \div 256, w[2] % 256>>

UnpackH(b) == b[1] * 256 + b[2]

UnpackI(b) == <<b[1] * 256 + b[2], b[3] * 256 + b[4]>>

\* the mutant of CanUnpackFrom: the size check is off by one
CanUnpackFromOffByOne(size, data, offset) == Len(data) - offset >= size - 1

\* unpack_from raises struct.error unless the buffer holds size bytes from
\* offset on
CanUnpackFrom(size, data, offset) == Len(data) - offset >= size

\* the size bytes read at offset (0-based); a byte beyond the buffer does not
\* exist and reads as 0 here, the offsets read are recorded by ReadAt
BytesAt(size, data, offset) ==
    [i \in 1..size |-> IF offset + i <= Len(data) THEN data[offset + i] ELSE 0]

ReadAt(size, offset) == offset..(offset + size - 1)

\* data[from:], a slice: it stops at the end of the buffer
SliceFrom(data, from) == SubSeq(data, from + 1, Len(data))

(***************************************************************************)
(* binascii.crc32: CRC-32 (reflected, polynomial 0xEDB88320, initial value *)
(* and final XOR 0xFFFFFFFF), table driven.  The running CRC is kept as    *)
(* its four bytes, most significant first.                                 *)
(***************************************************************************)
XorByte == [a \in 0..255 |-> [b \in 0..255 |-> BitXor(a, b)]]

CRC32_POLY == <<237, 184, 131, 32>>

ALL_ONES == <<255, 255, 255, 255>>

Xor32(x, y) ==
    <<XorByte[x[1]][y[1]], XorByte[x[2]][y[2]],
      XorByte[x[3]][y[3]], XorByte[x[4]][y[4]]>>

\* c >> 1
Shr1(c) ==
    <<c[1] \div 2,
      (c[2] \div 2) + (c[1] % 2) * 128,
      (c[3] \div 2) + (c[2] % 2) * 128,
      (c[4] \div 2) + (c[3] % 2) * 128>>

\* c >> 8
Shr8(c) == <<0, c[1], c[2], c[3]>>

RECURSIVE CrcBits(_, _)
CrcBits(c, k) ==
    IF k = 0 THEN c
    ELSE CrcBits(IF c[4] % 2 = 1 THEN Xor32(Shr1(c), CRC32_POLY) ELSE Shr1(c),
                 k - 1)

CrcTable == [n \in 0..255 |-> CrcBits(<<0, 0, 0, n>>, 8)]

RECURSIVE CrcFeed(_, _, _)
CrcFeed(crc, data, i) ==
    IF i > Len(data) THEN crc
    ELSE CrcFeed(Xor32(CrcTable[XorByte[crc[4]][data[i]]], Shr8(crc)),
                 data, i + 1)

Crc32(data, from) ==
    LET c == Xor32(CrcFeed(ALL_ONES, data, from), ALL_ONES)
    IN  <<c[1] * 256 + c[2], c[3] * 256 + c[4]>>

\* the mutant of calcCrc: the first byte is left out of the checksum
calcCrcSkipsFirst(data) == Crc32(data, 2)

calcCrc(data) == Crc32(data, 1)

(***************************************************************************)
(* The bytes packRawFrame returns for sequence number s and flags f.       *)
(***************************************************************************)
FB_RAW == 16
FB_DELTA == 18
FB_TIMED == 19

\* the values of MSG_TYPE
KnownTypes == (0..8) \cup {FB_RAW, 17, FB_DELTA, FB_TIMED}

\* the mutant of RawFramePacket: the length field counts the pixel bytes only
RawFramePacketPixelLen(d, s, f, pixels) ==
    LET pixelData      == packPixels(d, pixels)
        rawFrameBuffer == PackI(U32(Len(pixelData))) \o pixelData
        payLoad        == PackH(s) \o <<f, FB_RAW>> \o rawFrameBuffer
    IN  PackI(U32(Len(pixelData))) \o PackI(calcCrc(payLoad)) \o payLoad

RawFramePacket(d, s, f, pixels) ==
    LET pixelData      == packPixels(d, pixels)
        rawFrameBuffer == PackI(U32(Len(pixelData))) \o pixelData
        payLoad        == PackH(s) \o <<f, FB_RAW>> \o rawFrameBuffer
    IN  PackI(U32(Len(payLoad))) \o PackI(calcCrc(payLoad)) \o payLoad

(***************************************************************************)
(* State.                                                                  *)
(*                                                                         *)
(* The packet object: drv is its class (chosen by ledSpeakNode.__init__),  *)
(* seq and flags are set by __init__, the other attributes exist only once *)
(* unpack has assigned them (until then they hold a placeholder of their   *)
(* type that no method reads).  payloadFbLen is the 1-tuple unpack_from    *)
(* returns.                                                                *)
(*                                                                         *)
(* The calls made on it: op is the last method called, arg its argument,   *)
(* outcome how it ended ("returned" or "struct.error"), wrote the          *)
(* attributes it assigned, reads the 0-based offsets of packetData it      *)
(* read, seqBefore the counter before it, builds the number of             *)
(* packRawFrame calls so far, sent the bytes packRawFrame last returned    *)
(* and frame the pixels they were built from, onlyFull whether every       *)
(* datagram given to unpack so far had at least 16 bytes, calls the        *)
(* number of calls made.                                                   *)
(*                                                                         *)
(* The codec* variables hold one application of the pixel codecs.          *)
(***************************************************************************)
VARIABLES drv, seq, flags, rcvdLen, payloadLen, payloadCrc, payloadSeq,
          msgType, payloadFbLen, fb, localCrc,
          op, arg, outcome, wrote, reads, seqBefore, builds, sent, frame,
          onlyFull, calls,
          codecOp, codecDrv, codecIn, codecMid, codecOut

objVars   == <<drv, seq, flags, rcvdLen, payloadLen, payloadCrc, payloadSeq,
               msgType, payloadFbLen, fb, localCrc>>
callVars  == <<op, arg, outcome, wrote, reads, seqBefore, builds, sent, frame,
               onlyFull, calls>>
codecVars == <<codecOp, codecDrv, codecIn, codecMid, codecOut>>
vars      == <<objVars, callVars, codecVars>>

(***************************************************************************)
(* Inputs.                                                                 *)
(***************************************************************************)
RECURSIVE SeqsUpTo(_, _)
SeqsUpTo(S, n) ==
    IF n = 0 THEN {<< >>}
    ELSE LET shorter == SeqsUpTo(S, n - 1)
         IN  shorter \cup {Append(q, x) : q \in shorter, x \in S}

\* the pixels of the frame the "simple" command sends
FramePixels == {<<255, 0, 0>>, <<0, 255, 0>>, <<0, 0, 255>>}

\* the pixels frames are made of
SamplePixels == FramePixels \cup {<<1, 2, 3>>}

Frames == SeqsUpTo(SamplePixels, MaxFrame)

Fill(n, b) == [i \in 1..n |-> b]

FlipBit(data, i, k) == [data EXCEPT ![i] = BitXor(@, Pow2(k))]

\* what recvfrom may hand to unpack: any bytes.  Here: buffers of one
\* repeated byte, and the last packet built, intact, cut short, with bytes
\* appended, or with one bit of its body flipped.
FillBytes == {1, FB_DELTA, FB_TIMED, 255}

Foreign == {Fill(n, b) : n \in 0..MaxDatagram, b \in FillBytes}

Derived(p) ==
    IF p = << >> THEN {}
    ELSE {p, p \o <<0>>, p \o <<0, 0, 0>>}
         \cup {SubSeq(p, 1, n) : n \in 0..(Len(p) - 1)}
         \cup {FlipBit(p, i, k) : i \in 9..Len(p), k \in 0..7}

Datagrams(p) == Foreign \cup Derived(p)

(***************************************************************************)
(* Initial states: ledSpeakNode.__init__ creates the packet object of the  *)
(* driver, ledSpeakPacket.__init__ sets flags and seq.                     *)
(***************************************************************************)
CodecIdle ==
    /\ codecOp = "none"
    /\ codecDrv = "ws2812"
    /\ codecIn = << >>
    /\ codecMid = << >>
    /\ codecOut = << >>

ObjectNew(d, s, f) ==
    /\ drv = d
    /\ seq = s
    /\ flags = f
    /\ rcvdLen = 0
    /\ payloadLen = U32(0)
    /\ payloadCrc = U32(0)
    /\ payloadSeq = 0
    /\ msgType = 0
    /\ payloadFbLen = <<U32(0)>>
    /\ fb = << >>
    /\ localCrc = U32(0)
    /\ op = "new"
    /\ arg = << >>
    /\ outcome = "returned"
    /\ wrote = {"flags", "seq"}
    /\ reads = {}
    /\ seqBefore = s
    /\ builds = s
    /\ sent = << >>
    /\ frame = << >>
    /\ onlyFull = TRUE
    /\ calls = 0

Init ==
    /\ \E d \in Drivers : ObjectNew(d, 0, 0)
    /\ CodecIdle

(***************************************************************************)
(* packRawFrame(pixels).  struct.pack('>HBB', self.seq, ...) raises        *)
(* struct.error before self.seq is advanced.                               *)
(***************************************************************************)
PackRawFrame(pixels) ==
    /\ op' = "packRawFrame"
    /\ arg' = pixels
    /\ seqBefore' = seq
    /\ builds' = builds + 1
    /\ calls' = calls + 1
    /\ reads' = {}
    /\ IF CanPackH(seq)
       THEN /\ sent' = RawFramePacket(drv, seq, flags, pixels)
            /\ frame' = pixels
            /\ seq' = seq + 1
            /\ wrote' = {"seq"}
            /\ outcome' = "returned"
       ELSE /\ outcome' = "struct.error"
            /\ wrote' = {}
            /\ UNCHANGED <<sent, frame, seq>>
    /\ UNCHANGED <<drv, flags, rcvdLen, payloadLen, payloadCrc, payloadSeq,
                   msgType, payloadFbLen, fb, localCrc, onlyFull>>
    /\ UNCHANGED codecVars

(***************************************************************************)
(* unpack(packetData): the assignments of lines 91-96 in order; a          *)
(* struct.error ends the call and keeps what was assigned before it.       *)
(***************************************************************************)
Unpack(packetData) ==
    LET ok1 == CanUnpackFrom(8, packetData, 0)
        ok2 == ok1 /\ CanUnpackFrom(4, packetData, 8)
        ok3 == ok2 /\ CanUnpackFrom(4, packetData, 12)
        h1  == BytesAt(8, packetData, 0)
        h2  == BytesAt(4, packetData, 8)
        h3  == BytesAt(4, packetData, 12)
    IN  /\ op' = "unpack"
        /\ arg' = packetData
        /\ seqBefore' = seq
        /\ calls' = calls + 1
        /\ onlyFull' = (onlyFull /\ Len(packetData) >= 16)
        /\ rcvdLen' = Len(packetData)
        /\ payloadLen' = IF ok1 THEN UnpackI(SubSeq(h1, 1, 4)) ELSE payloadLen
        /\ payloadCrc' = IF ok1 THEN UnpackI(SubSeq(h1, 5, 8)) ELSE payloadCrc
        /\ payloadSeq' = IF ok2 THEN UnpackH(SubSeq(h2, 1, 2)) ELSE payloadSeq
        /\ flags' = IF ok2 THEN h2[3] ELSE flags
        /\ msgType' = IF ok2 THEN h2[4] ELSE msgType
        /\ payloadFbLen' = IF ok3 THEN <<UnpackI(h3)>> ELSE payloadFbLen
        /\ fb' = IF ok3 THEN unpackPixels(drv, SliceFrom(packetData, 16)) ELSE fb
        /\ localCrc' = IF ok3 THEN calcCrc(SliceFrom(packetData, 8)) ELSE localCrc
        /\ outcome' = IF ok3 THEN "returned" ELSE "struct.error"
        /\ wrote' = {"rcvdLen"}
                    \cup (IF ok1 THEN {"payloadLen", "payloadCrc"} ELSE {})
                    \cup (IF ok2 THEN {"payloadSeq", "flags", "msgType"} ELSE {})
                    \cup (IF ok3 THEN {"payloadFbLen", "fb", "localCrc"} ELSE {})
        /\ reads' = (IF ok1 THEN ReadAt(8, 0) ELSE {})
                    \cup (IF ok2 THEN ReadAt(4, 8) ELSE {})
                    \cup (IF ok3 THEN ReadAt(4, 12) \cup (8..(Len(packetData) - 1))
                          ELSE {})
        /\ UNCHANGED <<drv, seq, builds, sent, frame>>
        /\ UNCHANGED codecVars

(***************************************************************************)
(* Spec: any calls on one packet object, MaxCalls of them.                 *)
(***************************************************************************)
PackCall ==
    /\ calls < MaxCalls
    /\ \E pixels \in Frames : PackRawFrame(pixels)

UnpackCall ==
    /\ calls < MaxCalls
    /\ \E packetData \in Datagrams(sent) : Unpack(packetData)

Next == PackCall \/ UnpackCall

Spec == Init /\ [][Next]_vars

(***************************************************************************)
(* SpecLoop: one packet is built (or none) and one datagram is parsed, the *)
(* object starting from any of the counter and flags values it can hold    *)
(* (unpack sets flags to any byte of a datagram).                          *)
(***************************************************************************)
\* counter values of an object: fresh, and after 65535 packets built
InitSeqs == {0, MaxH}

InitFlags == {0, 1}

InitLoop ==
    /\ \E d \in Drivers, s \in InitSeqs, f \in InitFlags : ObjectNew(d, s, f)
    /\ CodecIdle

BuildOne ==
    /\ op = "new"
    /\ \E pixels \in Frames : PackRawFrame(pixels)

ParseOne ==
    /\ op # "unpack"
    /\ \E packetData \in Datagrams(sent) : Unpack(packetData)

NextLoop == BuildOne \/ ParseOne

SpecLoop == InitLoop /\ [][NextLoop]_vars

(***************************************************************************)
(* SpecSimple: the "simple" command.  A new node sends framePixels count   *)
(* times; any count up to MaxCount.                                        *)
(***************************************************************************)
framePixels == <<<<255, 0, 0>>, <<0, 255, 0>>, <<0, 0, 255>>>>

InitSimple ==
    /\ \E d \in Drivers : ObjectNew(d, 0, 0)
    /\ CodecIdle

SendRawFrame ==
    /\ builds < MaxCount
    /\ outcome = "returned"
    /\ PackRawFrame(framePixels)

SpecSimple == InitSimple /\ [][SendRawFrame]_vars

(***************************************************************************)
(* SpecCodec: the pixel codecs applied to one input.  The input is a pixel *)
(* sequence (packed, then unpacked again) or a byte string (unpacked).     *)
(***************************************************************************)
ChanVals == {0, 1, 63, 64, 127, 128, 191, 192, 255}

PixelInputs ==
    SeqsUpTo(SamplePixels, MaxPixels)
    \cup {<< <<r, g, b>> >> : r \in ChanVals, g \in ChanVals, b \in ChanVals}

ByteVals == {0, 7, 255}

ByteInputs == SeqsUpTo(ByteVals, MaxBytes)

InitCodec ==
    /\ ObjectNew("ws2812", 0, 0)
    /\ codecDrv \in Drivers
    /\ \/ codecOp = "pixels" /\ codecIn \in PixelInputs
       \/ codecOp = "bytes" /\ codecIn \in ByteInputs
    /\ codecMid = << >>
    /\ codecOut = << >>

PackPixelsStep ==
    /\ codecOp = "pixels"
    /\ codecOp' = "packed"
    /\ codecMid' = packPixels(codecDrv, codecIn)
    /\ UNCHANGED <<codecDrv, codecIn, codecOut>>
    /\ UNCHANGED <<objVars, callVars>>

UnpackPackedStep ==
    /\ codecOp = "packed"
    /\ codecOp' = "roundtrip"
    /\ codecOut' = unpackPixels(codecDrv, codecMid)
    /\ UNCHANGED <<codecDrv, codecIn, codecMid>>
    /\ UNCHANGED <<objVars, callVars>>

UnpackBytesStep ==
    /\ codecOp = "bytes"
    /\ codecOp' = "unpacked"
    /\ codecOut' = unpackPixels(codecDrv, codecIn)
    /\ UNCHANGED <<codecDrv, codecIn, codecMid>>
    /\ UNCHANGED <<objVars, callVars>>

NextCodec == PackPixelsStep \/ UnpackPackedStep \/ UnpackBytesStep

SpecCodec == InitCodec /\ [][NextCodec]_vars

(***************************************************************************)
(* Properties.                                                             *)
(***************************************************************************)
\* n as four bytes, most significant first
BE32(n) == <<n \div 16777216, (n \div 65536) % 256, (n \div 256) % 256, n % 256>>

BytesPerPixel(d) == IF d = "ws2812" THEN 3 ELSE 4

\* q is p with exactly one bit changed, in a byte after the 8-byte header
BodyBitFlip(p, q) ==
    /\ Len(q) = Len(p)
    /\ \E i \in 9..Len(p) :
          /\ \A j \in 1..Len(p) : j # i => q[j] = p[j]
          /\ \E k \in 0..7 :
                LET w   == Pow2(k)
                    bit == (p[i] \div w) % 2
                IN  q[i] = IF bit = 0 THEN p[i] + w ELSE p[i] - w

\* C1: for a WS2812 object, every packRawFrame call at counter s returns bytes
\* and leaves the counter at s + 1, and parsing the returned bytes gives the
\* pixels that were packed, messageType FB_RAW, a recomputed checksum equal to
\* the declared one and sequence s.
C1_PacketRoundTrip ==
    /\ (op = "packRawFrame" /\ drv = "ws2812") =>
          /\ outcome = "returned"
          /\ seq = seqBefore + 1
    /\ (op = "unpack" /\ drv = "ws2812" /\ sent # << >> /\ arg = sent) =>
          /\ outcome = "returned"
          /\ fb = frame
          /\ msgType = FB_RAW
          /\ localCrc = payloadCrc
          /\ payloadSeq = seq - 1

\* What holds of C1: the round trip of every packet that was built.
BuiltPacketRoundTrip ==
    (op = "unpack" /\ drv = "ws2812" /\ sent # << >> /\ arg = sent) =>
          /\ outcome = "returned"
          /\ fb = frame
          /\ msgType = FB_RAW
          /\ localCrc = payloadCrc
          /\ payloadSeq = seq - 1

\* C2: the counter stays within 0..65535, and every packRawFrame call returns
\* a packet and advances the counter by one modulo 2^16, the k-th call's packet
\* carrying sequence (k - 1) mod 65536.
C2_SequenceWraps ==
    /\ seq \in 0..65535
    /\ op = "packRawFrame" =>
          /\ outcome = "returned"
          /\ seq = (seqBefore + 1) % 65536
          /\ SubSeq(sent, 9, 10) = <<((builds - 1) % 65536) \div 256,
                                     ((builds - 1) % 65536) % 256>>

\* C3: unpackPixels(packPixels(pixels)) = pixels, for both codecs.
C3_CodecRoundTrip ==
    codecOp = "roundtrip" => codecOut = codecIn

\* What holds of C3: the round trip of the WS2812 codec.
Ws2812RoundTrip ==
    (codecOp = "roundtrip" /\ codecDrv = "ws2812") => codecOut = codecIn

\* C4: unpack of a buffer shorter than 16 bytes ends in struct.error, unpack of
\* a buffer of 16 bytes or more does not, and unpack never reads an offset at
\* or beyond the length of the buffer.
C4_TruncatedInput ==
    op = "unpack" =>
       /\ Len(arg) < 16 => outcome = "struct.error"
       /\ Len(arg) >= 16 => outcome = "returned"
       /\ \A i \in reads : i < Len(arg)

C4_Witness ==
    /\ op = "unpack"
    /\ sent # << >>
    /\ arg = SubSeq(sent, 1, 15)
    /\ outcome = "struct.error"
    /\ reads = 0..11

\* C5: a packet built by packRawFrame with one bit of bytes[8:] flipped parses
\* without error, the declared checksum still that of the packet and the
\* recomputed checksum different from it.
C5_Tampering ==
    (op = "unpack" /\ sent # << >> /\ BodyBitFlip(sent, arg)) =>
       /\ outcome = "returned"
       /\ payloadCrc = <<sent[5] * 256 + sent[6], sent[7] * 256 + sent[8]>>
       /\ localCrc # payloadCrc

C5_Witness ==
    /\ op = "unpack"
    /\ Len(frame) = 2
    /\ BodyBitFlip(sent, arg)
    /\ arg[Len(arg)] # sent[Len(sent)]
    /\ outcome = "returned"
    /\ localCrc # payloadCrc

\* C6: a packet built by packRawFrame is 8 + 4 + 4 + (packed pixel bytes) long
\* and its totalLength field is its length less the 8 header bytes, so parsing
\* it gives rcvdLen = payloadLen + 8; and parsing a buffer of at least 16 bytes
\* whose totalLength field is not its length less 8 returns with
\* rcvdLen # payloadLen + 8.
C6_LengthIntegrity ==
    /\ (op = "packRawFrame" /\ outcome = "returned") =>
          /\ Len(sent) = 8 + 4 + 4 + BytesPerPixel(drv) * Len(arg)
          /\ SubSeq(sent, 1, 4) = BE32(Len(sent) - 8)
    /\ (op = "unpack" /\ sent # << >> /\ arg = sent) =>
          /\ outcome = "returned"
          /\ rcvdLen = Len(sent)
          /\ payloadLen = U32(rcvdLen - 8)
    /\ (op = "unpack" /\ Len(arg) >= 16
          /\ SubSeq(arg, 1, 4) # BE32(Len(arg) - 8)) =>
          /\ outcome = "returned"
          /\ rcvdLen = Len(arg)
          /\ payloadLen # U32(rcvdLen - 8)

C6_Witness ==
    /\ op = "unpack"
    /\ Len(frame) = 2
    /\ arg = sent \o <<0>>
    /\ outcome = "returned"
    /\ payloadLen = U32(Len(sent) - 8)
    /\ payloadLen # U32(rcvdLen - 8)

\* C7: unpack of a buffer of at least 16 bytes whose messageType is FB_DELTA,
\* FB_TIMED or no value of MSG_TYPE is rejected, and decodes no pixel list.
C7_UnsupportedRejected ==
    (op = "unpack" /\ Len(arg) >= 16
       /\ (arg[12] \in {FB_DELTA, FB_TIMED} \/ arg[12] \notin KnownTypes)) =>
       /\ outcome = "struct.error"
       /\ "fb" \notin wrote

\* C8: the P9813 packPixels emits 4 bytes per pixel, [header, B, G, R], in
\* input order, the header being 0xFF with the top two bits of B, G and R
\* XOR-ed into bits 5-4, 3-2 and 1-0.  (The three fields share no bit, and
\* 0xFF XOR x = 255 - x for a byte x.)
C8_P9813Packing ==
    (codecOp \in {"packed", "roundtrip"} /\ codecDrv = "p9813") =>
       /\ Len(codecMid) = 4 * Len(codecIn)
       /\ \A i \in 1..Len(codecIn) :
             LET R == codecIn[i][1]
                 G == codecIn[i][2]
                 B == codecIn[i][3]
                 header == 255 - (16 * (B \div 64) + 4 * (G \div 64) + (R \div 64))
             IN  SubSeq(codecMid, 4 * (i - 1) + 1, 4 * i) = <<header, B, G, R>>
       /\ codecIn = << <<255, 0, 0>> >> => codecMid = <<252, 0, 0, 255>>

C8_Witness ==
    /\ codecOp = "packed"
    /\ codecDrv = "p9813"
    /\ codecIn = << <<255, 0, 0>> >>
    /\ codecMid = <<252, 0, 0, 255>>

\* C9: the WS2812 unpackPixels returns floor(n / 3) pixels for n bytes, pixel i
\* (from 0) being (R, G, B) = (bytes[3i+1], bytes[3i], bytes[3i+2]); the last
\* n mod 3 bytes are dropped.
C9_Ws2812Unpacking ==
    (codecOp = "unpacked" /\ codecDrv = "ws2812") =>
       /\ Len(codecOut) = Len(codecIn) \div 3
       /\ \A i \in 1..Len(codecOut) :
             codecOut[i] = <<codecIn[3 * (i - 1) + 2],
                             codecIn[3 * (i - 1) + 1],
                             codecIn[3 * (i - 1) + 3]>>

C9_Witness ==
    /\ codecOp = "unpacked"
    /\ codecDrv = "ws2812"
    /\ codecIn = <<0, 7, 255, 7, 0, 255, 7>>
    /\ codecOut = << <<7, 0, 255>>, <<0, 7, 255>> >>

\* C10: whatever buffers of at least 16 bytes unpack was given, every packet
\* packRawFrame returns has bit 0 of its flags byte (offset 10) clear, and
\* unpack leaves the sequence counter as it was.
C10_MoreFollowsNeverProduced ==
    /\ (op = "packRawFrame" /\ outcome = "returned" /\ onlyFull) =>
          sent[11] % 2 = 0
    /\ (op = "unpack" /\ Len(arg) >= 16) => seq = seqBefore

====
